---- MODULE Spec2Model ----
(***************************************************************************)
(* Hybrid song-similarity ranking: the batch step preprocess               *)
(* (src/sim_preprocess.py) builds the corpus bundle, and main              *)
(* (src/app/irsystem/sim.py) resolves a query through the Spotify and      *)
(* Genius providers, scores it with lyrics_sim and af_sim, fuses, sorts    *)
(* and scans the ranked list.                                              *)
(*                                                                         *)
(* Numbers.  The code computes in float64.  A float is modelled as a      *)
(* record [k, v]: k = "num" with v the value in units of 1/Scale          *)
(* (fixed point, rounded toward zero), k = "nan", or k = "inf" with v the *)
(* sign.  Division follows numpy: x/0 is nan for x = 0 and +-inf           *)
(* otherwise, with no exception; comparisons with nan are false.           *)
(*                                                                         *)
(* Strings.  Names are sequences of one-character strings, so that         *)
(* lower-casing, stripping and substring tests are computed.               *)
(***************************************************************************)
EXTENDS Integers, Sequences, FiniteSets, TLC

\* ------------------------------------------------------------ bounds
NSongs == 3          \* song ids of the dataset are 1..NSongs
MaxResults == 3      \* n_results ranges over 0..MaxResults
Scale == 1000        \* fixed-point resolution of a modelled float

\* Python's None for objects (dicts, Counters, records) is the empty tuple:
\* both are falsy in the code's `if not x` tests.
None == << >>
\* Python's None for a uri (uris are the positive song ids).
NoUri == 0

\* ------------------------------------------------------------ sequences
RECURSIVE SetToSeq(_)
\* the elements of a finite set of integers in ascending order
SetToSeq(S) ==
  IF S = {} THEN << >>
  ELSE LET m == CHOOSE x \in S : \A y \in S : x <= y
       IN <<m>> \o SetToSeq(S \ {m})

Range(s) == { s[i] : i \in DOMAIN s }

Abs(x) == IF x < 0 THEN 0 - x ELSE x
Sign(x) == IF x < 0 THEN 0 - 1 ELSE IF x > 0 THEN 1 ELSE 0
\* integer division rounding toward zero
Quot(a, b) == Sign(a) * Sign(b) * (Abs(a) \div Abs(b))

\* ------------------------------------------------------------ float64
Num(x) == [k |-> "num", v |-> x]
NaN == [k |-> "nan", v |-> 0]
Inf(s) == [k |-> "inf", v |-> s]
IsNaN(a) == a.k = "nan"
IsNum(a) == a.k = "num"
FZero == Num(0)
FOne == Num(Scale)
FInt(n) == Num(n * Scale)
FSign(a) == Sign(a.v)

FNeg(a) == IF IsNum(a) THEN Num(0 - a.v) ELSE IF IsNaN(a) THEN NaN ELSE Inf(0 - a.v)

FAdd(a, b) ==
  IF IsNaN(a) \/ IsNaN(b) THEN NaN
  ELSE IF IsNum(a) /\ IsNum(b) THEN Num(a.v + b.v)
  ELSE IF IsNum(a) THEN b
  ELSE IF IsNum(b) THEN a
  ELSE IF a.v = b.v THEN a ELSE NaN

FMul(a, b) ==
  IF IsNaN(a) \/ IsNaN(b) THEN NaN
  ELSE IF IsNum(a) /\ IsNum(b) THEN Num(Quot(a.v * b.v, Scale))
  ELSE IF FSign(a) = 0 \/ FSign(b) = 0 THEN NaN
  ELSE Inf(FSign(a) * FSign(b))

\* numpy float64 division: no exception on a zero divisor
FDiv(a, b) ==
  IF IsNaN(a) \/ IsNaN(b) THEN NaN
  ELSE IF IsNum(a) /\ IsNum(b) THEN
         IF b.v = 0 THEN (IF a.v = 0 THEN NaN ELSE Inf(Sign(a.v)))
         ELSE Num(Quot(a.v * Scale, b.v))
  ELSE IF IsNum(a) THEN FZero
  ELSE IF IsNum(b) THEN Inf(FSign(a) * (IF b.v < 0 THEN 0 - 1 ELSE 1))
  ELSE NaN

\* IEEE comparisons: every comparison with nan is false
FLt(a, b) ==
  /\ ~IsNaN(a) /\ ~IsNaN(b)
  /\ IF IsNum(a) /\ IsNum(b) THEN a.v < b.v
     ELSE IF IsNum(a) THEN b.v > 0
     ELSE IF IsNum(b) THEN a.v < 0
     ELSE a.v < b.v
FEq(a, b) == ~IsNaN(a) /\ ~IsNaN(b) /\ a = b

RECURSIVE ISqrtBin(_, _, _)
\* the largest r in lo..hi with r*r <= x, by bisection
ISqrtBin(x, lo, hi) ==
  IF lo >= hi THEN lo
  ELSE LET mid == (lo + hi + 1) \div 2
       IN IF mid * mid <= x THEN ISqrtBin(x, mid, hi) ELSE ISqrtBin(x, lo, mid - 1)
ISqrt(x) == ISqrtBin(x, 0, 46340)

\* np.sqrt
FSqrt(a) ==
  IF IsNaN(a) THEN NaN
  ELSE IF IsNum(a) THEN (IF a.v < 0 THEN NaN ELSE Num(ISqrt(a.v * Scale)))
  ELSE IF a.v > 0 THEN a ELSE NaN

\* np.log2 of the true quotient p/q (p, q positive integers): the integer
\* part by halving or doubling, then ten fraction bits by repeated squaring
\* of the mantissa, held in units of 1/4096.
RECURSIVE Log2Int(_, _)
Log2Int(p, q) ==
  IF p >= 2 * q THEN 1 + Log2Int(p, 2 * q)
  ELSE IF p < q THEN Log2Int(2 * p, q) - 1
  ELSE 0
RECURSIVE Pow2(_)
Pow2(e) == IF e = 0 THEN 1 ELSE 2 * Pow2(e - 1)
RECURSIVE Log2Frac(_, _, _)
\* y is the mantissa in [4096, 8192); bit is the weight of the next bit in 1/1024
Log2Frac(y, bit, acc) ==
  IF bit = 0 THEN acc
  ELSE LET y2 == (y * y) \div 4096
       IN IF y2 >= 8192 THEN Log2Frac(y2 \div 2, bit \div 2, acc + bit)
          ELSE Log2Frac(y2, bit \div 2, acc)
FLog2(p, q) ==
  LET e == Log2Int(p, q)
      pp == IF e < 0 THEN p * Pow2(0 - e) ELSE p
      qq == IF e > 0 THEN q * Pow2(e) ELSE q
      frac == Log2Frac((pp * 4096) \div qq, 512, 0)
  IN Num(e * Scale + (frac * Scale) \div 1024)

RECURSIVE FSumFn(_)
\* the float sum of the values of a function with a finite domain
FSumFn(f) ==
  IF DOMAIN f = {} THEN FZero
  ELSE LET x == CHOOSE x \in DOMAIN f : TRUE
       IN FAdd(f[x], FSumFn([y \in DOMAIN f \ {x} |-> f[y]]))

\* ------------------------------------------------------------ strings
\* app/irsystem/utils.py (strip_name, match) is not among the source files:
\* match is modelled from the specification's description ("case/
\* punctuation/diacritic-insensitive substring-or-equality comparison").
LowerChar(c) ==
  CASE c = "A" -> "a" [] c = "C" -> "c" [] c = "D" -> "d" [] c = "G" -> "g"
    [] OTHER -> c
Lower(s) == [i \in DOMAIN s |-> LowerChar(s[i])]
\* unidecode: diacritics to ASCII
UnidecodeChar(c) == IF c = "é" THEN "e" ELSE c
Punctuation == {".", ",", "!", "'"}

RECURSIVE LStrip(_)
LStrip(s) == IF s # << >> /\ Head(s) = " " THEN LStrip(Tail(s)) ELSE s
RECURSIVE RStrip(_)
RStrip(s) == IF s # << >> /\ s[Len(s)] = " " THEN RStrip(SubSeq(s, 1, Len(s) - 1)) ELSE s
\* str.strip
Strip(s) == RStrip(LStrip(s))

RECURSIVE Split(_, _)
\* str.split(sep) for a one-character separator
Split(s, sep) ==
  IF \A i \in DOMAIN s : s[i] # sep THEN <<s>>
  ELSE LET i == CHOOSE i \in DOMAIN s : s[i] = sep /\ \A j \in 1..(i - 1) : s[j] # sep
       IN <<SubSeq(s, 1, i - 1)>> \o Split(SubSeq(s, i + 1, Len(s)), sep)

RECURSIVE Join(_, _)
\* sep.join(parts)
Join(parts, sep) ==
  IF parts = << >> THEN << >>
  ELSE IF Len(parts) = 1 THEN parts[1]
  ELSE parts[1] \o sep \o Join(Tail(parts), sep)

IsSubstring(x, y) ==
  \E i \in 1..(Len(y) + 1) : i + Len(x) - 1 <= Len(y) /\ SubSeq(y, i, i + Len(x) - 1) = x

Normalize(s) ==
  SelectSeq([i \in DOMAIN s |-> LowerChar(UnidecodeChar(s[i]))],
            LAMBDA c : c \notin Punctuation)

\* utils.match
Match(s1, s2) ==
  LET x == Normalize(s1)
      y == Normalize(s2)
  IN IsSubstring(x, y) \/ IsSubstring(y, x)

\* utils.strip_name: the title without a parenthesised version suffix
StripName(name) ==
  IF \E i \in DOMAIN name : name[i] = "("
  THEN Strip(SubSeq(name, 1, (CHOOSE i \in DOMAIN name :
                                 name[i] = "(" /\ \A j \in 1..(i - 1) : name[j] # "(") - 1))
  ELSE Strip(name)

\* ------------------------------------------------------------ preprocess
\* features used in similarity computations (the model keeps one of the
\* twelve columns)
AF_COLS == <<"energy">>
stopwords == {"the"}
\* str.isalpha on the tokens of the model
IsAlpha(word) == word \notin {"4u"}

\* A dict whose iteration order reaches the result (a Counter, a score map)
\* is the sequence of its <<key, value>> items in insertion order; the dicts
\* of the bundle, whose order reaches nothing, are functions.
Keys(d) == { d[i][1] : i \in DOMAIN d }
Item(d, key) == (CHOOSE i \in DOMAIN d : d[i][1] = key)
Value(d, key) == d[Item(d, key)][2]

\* make_inv_idx: {token: [(uri, term frequency), ...]}; lyrics_dict is
\* iterated in ascending uri order
make_inv_idx(lyrics_dict, remove_stopwords) ==
  LET kept(word) == ~remove_stopwords \/ (word \notin stopwords /\ IsAlpha(word))
      words == { w \in UNION { Keys(lyrics_dict[u]) : u \in DOMAIN lyrics_dict } : kept(w) }
      uris(w) == SetToSeq({ u \in DOMAIN lyrics_dict : w \in Keys(lyrics_dict[u]) })
  IN [w \in words |->
        [i \in DOMAIN uris(w) |-> <<uris(w)[i], Value(lyrics_dict[uris(w)[i]], w)>>]]

\* a ratio is a record [num, den]
RatioLe(p, q, r) == p * r.den <= r.num * q

\* compute_idf
compute_idf(inv_idx, n_docs, min_df, max_df_ratio) ==
  LET df(w) == Len(inv_idx[w])
  IN [w \in { w \in DOMAIN inv_idx : df(w) >= min_df /\ RatioLe(df(w), n_docs, max_df_ratio) }
        |-> FLog2(n_docs, 1 + df(w))]

\* dict.get(key, default)
Get(d, key, default) == IF key \in DOMAIN d THEN d[key] ELSE default
FSquare(a) == FMul(a, a)
\* int * float
FScale(n, a) == FMul(FInt(n), a)

\* compute_song_norms
compute_song_norms(inv_idx, idf_dict) ==
  LET uris == { p[1] : p \in UNION { Range(inv_idx[w]) : w \in DOMAIN inv_idx } }
      tf(w, u) == (CHOOSE p \in Range(inv_idx[w]) : p[1] = u)[2]
      has(w, u) == \E p \in Range(inv_idx[w]) : p[1] = u
  IN [u \in uris |->
        FSqrt(FSumFn([w \in { w \in DOMAIN inv_idx : has(w, u) } |->
                        FSquare(FScale(tf(w, u), Get(idf_dict, w, FZero)))]))]

\* StandardScaler.fit on one column: mean and scale (a zero standard
\* deviation is replaced by 1, as sklearn does)
FitColumn(vals) ==
  LET n == FInt(Len(vals))
      mean == FDiv(FSumFn(vals), n)
      var == FDiv(FSumFn([i \in DOMAIN vals |-> FSquare(FAdd(vals[i], FNeg(mean)))]), n)
      std == FSqrt(var)
  IN [mean |-> mean, scale |-> IF FEq(std, FZero) THEN FOne ELSE std]

\* StandardScaler.transform of one row
Transform(scaler, row) ==
  [c \in DOMAIN AF_COLS |-> FDiv(FAdd(row[c], FNeg(scaler[c].mean)), scaler[c].scale)]

\* np.linalg.norm
Norm(vec) == FSqrt(FSumFn([c \in DOMAIN vec |-> FSquare(vec[c])]))
Dot(a, b) == FSumFn([c \in DOMAIN a |-> FMul(a[c], b[c])])

\* get_af_matrix_data; df is the sequence of rows of the song table
get_af_matrix_data(df, uri_colname) ==
  LET raw == [i \in DOMAIN df |-> [c \in DOMAIN AF_COLS |-> FInt(df[i][AF_COLS[c]])]]
      scaler == [c \in DOMAIN AF_COLS |-> FitColumn([i \in DOMAIN df |-> raw[i][c]])]
      af_matrix == [i \in DOMAIN df |-> Transform(scaler, raw[i])]
  IN [ix_to_uri |-> [i \in DOMAIN df |-> df[i][uri_colname]],
      af_matrix |-> af_matrix,
      af_song_norms |-> [i \in DOMAIN df |-> Norm(af_matrix[i])],
      scaler |-> scaler]

\* the one-element threshold that compute_idf defaults to
DefaultMinDf == 1
DefaultMaxDfRatio == [num |-> 1, den |-> 1]

\* preprocess: the bundle of variables; compute_idf is called without
\* min_df and max_df_ratio, so it runs on its defaults
preprocess(df0, lyrics_dict, remove_stopwords, min_df, max_df_ratio) ==
  LET n_docs == Cardinality(DOMAIN lyrics_dict)
      df == SelectSeq(df0, LAMBDA row : row.track_id \in DOMAIN lyrics_dict)
      inv_idx == make_inv_idx(lyrics_dict, remove_stopwords)
      idf_dict == compute_idf(inv_idx, n_docs, DefaultMinDf, DefaultMaxDfRatio)
      af == get_af_matrix_data(df, "track_id")
  IN [uri_to_song |-> [u \in { df[i].track_id : i \in DOMAIN df } |->
                         CHOOSE row \in Range(df) : row.track_id = u],
      inv_idx |-> inv_idx,
      idf_dict |-> idf_dict,
      song_norms_dict |-> compute_song_norms(inv_idx, idf_dict),
      ix_to_uri |-> af.ix_to_uri,
      af_matrix |-> af.af_matrix,
      af_song_norms |-> af.af_song_norms,
      scaler |-> af.scaler]

\* ------------------------------------------------------------ scorers
RECURSIVE Dedup(_)
\* the first occurrences of the elements of a sequence, in order
Dedup(s) ==
  IF s = << >> THEN << >>
  ELSE LET r == Dedup(SubSeq(s, 1, Len(s) - 1))
       IN IF s[Len(s)] \in Range(r) THEN r ELSE Append(r, s[Len(s)])

RECURSIVE Concat(_)
Concat(ss) == IF ss = << >> THEN << >> ELSE Head(ss) \o Concat(Tail(ss))

\* lyrics_sim: {uri: cosine similarity}, for the uris of the posting lists
\* of the query's tokens that have an idf, in the order the loop meets them
lyrics_sim(query_lyrics_cnt, inv_idx, idf_dict, song_norms_dict) ==
  LET toks == SelectSeq([i \in DOMAIN query_lyrics_cnt |-> query_lyrics_cnt[i][1]],
                        LAMBDA t : t \in DOMAIN idf_dict)
      query_tfidf == [t \in Range(toks) |-> FScale(Value(query_lyrics_cnt, t), idf_dict[t])]
      query_norm == FSqrt(FSumFn([t \in DOMAIN query_tfidf |-> FSquare(query_tfidf[t])]))
      has(t, u) == \E p \in Range(inv_idx[t]) : p[1] = u
      tf(t, u) == (CHOOSE p \in Range(inv_idx[t]) : p[1] = u)[2]
      docs == Dedup(Concat([i \in DOMAIN toks |->
                              [j \in DOMAIN inv_idx[toks[i]] |-> inv_idx[toks[i]][j][1]]]))
      dot(u) == FSumFn([t \in { t \in DOMAIN query_tfidf : has(t, u) } |->
                          FMul(FScale(tf(t, u), idf_dict[t]), query_tfidf[t])])
  IN [i \in DOMAIN docs |->
        <<docs[i], FDiv(dot(docs[i]), FMul(song_norms_dict[docs[i]], query_norm))>>]

\* af_sim: {uri: cosine similarity} for every row of af_matrix (or for the
\* rows of indices when given), in row order
af_sim(query_af, af_matrix, af_song_norms, ix_to_uri, scaler, indices) ==
  LET query_vec == Transform(scaler, [c \in DOMAIN AF_COLS |-> FInt(query_af[AF_COLS[c]])])
      query_norm == Norm(query_vec)
      scores == [i \in DOMAIN af_matrix |->
                   FDiv(Dot(af_matrix[i], query_vec), FMul(query_norm, af_song_norms[i]))]
      rows == IF indices # None THEN indices ELSE [i \in DOMAIN scores |-> i]
  IN [i \in DOMAIN rows |-> <<ix_to_uri[rows[i]], scores[rows[i]]>>]

\* ------------------------------------------------------------ the data
Songs == 1..NSongs
\* the uris Spotify knows: the songs and one track outside the dataset
SpotifyUris == 1..(NSongs + 1)

\* The rows of the song table (the CSV read by preprocess): artist and
\* title by track id.
DatasetArtist(u) ==
  CASE u % 3 = 1 -> <<"A", ".", "b">>
    [] u % 3 = 2 -> <<"c">>
    [] OTHER -> <<"a", "b">>
DatasetTitle(u) ==
  CASE u % 3 = 0 -> <<"f">>
    [] OTHER -> <<"d", "e">>

\* What a song of the dataset can hold: its lyrics Counter and its energy.
SongChoices ==
  { [lyrics |-> << <<"love", 1>> >>, energy |-> 0],
    [lyrics |-> << <<"baby", 1>>, <<"the", 1>> >>, energy |-> 1],
    [lyrics |-> << <<"love", 2>>, <<"you", 1>> >>, energy |-> 1] }

\* The tracks Spotify knows, by uri: artists, name and energy.
SpotifyTrack(u) ==
  CASE u % 3 = 1 -> [uri |-> u, artists |-> << <<"G">>, <<"A", "b">> >>,
                     name |-> <<"h", " ", "(", "l", ")">>, energy |-> 1]
    [] u % 3 = 2 -> [uri |-> u, artists |-> << <<"C">> >>,
                     name |-> <<"D", "e">>, energy |-> 0]
    [] OTHER -> [uri |-> u, artists |-> << <<"a", "b">> >>,
                 name |-> <<"f">>, energy |-> 1]

\* sp.search(...)['tracks']['items']: any list of at most two tracks
SearchResults ==
  { << >> } \cup { <<SpotifyTrack(u)>> : u \in SpotifyUris }
    \cup { <<SpotifyTrack(u), SpotifyTrack(v)>> : u, v \in SpotifyUris }

\* What Genius can answer to retrieve_lyrics for an artist: no artist, no
\* song, a song of another artist, or a song of the artist (under Genius'
\* spelling of the name) with its tokenized text.
GeniusAnswers(artist) ==
  { [artist_obj |-> FALSE, song_obj |-> FALSE, song_artist |-> << >>, tokens |-> << >>],
    [artist_obj |-> TRUE, song_obj |-> FALSE, song_artist |-> << >>, tokens |-> << >>],
    [artist_obj |-> TRUE, song_obj |-> TRUE, song_artist |-> <<"z">>, tokens |-> <<"love">>],
    [artist_obj |-> TRUE, song_obj |-> TRUE, song_artist |-> artist \o <<"!">>,
     tokens |-> <<"love", ",", "love">>],
    [artist_obj |-> TRUE, song_obj |-> TRUE, song_artist |-> artist,
     tokens |-> <<"love", "!", "baby">>] }

\* queries by name, "artist | name"
QueryStrings ==
  { <<"G", " ", "|", " ", "h">>, <<"c", "|", "D", "e">> }

Weights == { FZero, Num(Scale \div 2), FOne }

\* ------------------------------------------------------------ helpers of main
\* Counter(tokens): the distinct tokens in order of first occurrence, each
\* with its number of occurrences
Counter(tokens) ==
  [i \in DOMAIN Dedup(tokens) |->
     <<Dedup(tokens)[i], Cardinality({ j \in DOMAIN tokens : tokens[j] = Dedup(tokens)[i] })>>]

\* retrieve_lyrics on Genius' answer: Counter of the tokens or None
retrieve_lyrics(query_artist_, query_name_, answer) ==
  IF ~answer.artist_obj THEN None
  ELSE IF ~answer.song_obj \/ ~Match(query_artist_, answer.song_artist) THEN None
  ELSE Counter(SelectSeq(answer.tokens, LAMBDA t : t \notin Punctuation))

RECURSIVE get_song_uri(_, _, _)
\* get_song_uri on the search results: the first track whose artists and
\* name match the query, or None
get_song_uri(query_artist, query_name, search_results) ==
  IF search_results = << >> THEN NoUri
  ELSE LET d == Head(search_results)
       IN IF Match(query_artist, Join(d.artists, <<",">>)) /\ Match(query_name, d.name)
          THEN d.uri
          ELSE get_song_uri(query_artist, query_name, Tail(search_results))

\* get_audio_features on Spotify's record of the track (data = None when
\* Spotify has no audio features for it)
get_audio_features(uri, has_data) ==
  IF ~has_data THEN None
  ELSE [energy |-> SpotifyTrack(uri).energy,
        artist_name |-> Join(SpotifyTrack(uri).artists, <<",", " ">>),
        track_name |-> SpotifyTrack(uri).name,
        uri |-> uri]

\* ------------------------------------------------------------ sorted
\* The key of main's sort is (-score, uri); Python compares tuples by the
\* first position whose elements are not ==, so a nan score is neither less
\* nor equal nor greater.
KeyLt(x, y) ==
  LET a == FNeg(x[2])
      b == FNeg(y[2])
  IN IF FEq(a, b) THEN x[1] < y[1] ELSE FLt(a, b)

RECURSIVE AscRun(_, _)
AscRun(a, n) == IF n < Len(a) /\ ~KeyLt(a[n + 1], a[n]) THEN AscRun(a, n + 1) ELSE n
RECURSIVE DescRun(_, _)
DescRun(a, n) == IF n < Len(a) /\ KeyLt(a[n + 1], a[n]) THEN DescRun(a, n + 1) ELSE n
Reverse(a) == [i \in DOMAIN a |-> a[Len(a) + 1 - i]]

RECURSIVE BinarySearch(_, _, _, _)
\* where binarysort puts pivot among the sorted a[1..r-1]
BinarySearch(a, pivot, l, r) ==
  IF l >= r THEN l
  ELSE LET q == l + ((r - l) \div 2)
       IN IF KeyLt(pivot, a[q]) THEN BinarySearch(a, pivot, l, q)
          ELSE BinarySearch(a, pivot, q + 1, r)

RECURSIVE BinarySort(_, _)
\* a[1..start] is sorted; insert a[start+1], a[start+2], ... in turn
BinarySort(a, start) ==
  IF start >= Len(a) THEN a
  ELSE LET pivot == a[start + 1]
           l == BinarySearch(a, pivot, 1, start + 1)
           b == SubSeq(a, 1, l - 1) \o <<pivot>> \o SubSeq(a, l, start)
                  \o SubSeq(a, start + 2, Len(a))
       IN BinarySort(b, start + 1)

\* sorted(items, key = lambda x: (-x[1], x[0])) as CPython sorts a list of
\* fewer than 64 items: the leading run (reversed when strictly descending),
\* then binary insertion of the rest
Sorted(items) ==
  IF Len(items) < 2 THEN items
  ELSE IF KeyLt(items[2], items[1])
       THEN LET n == DescRun(items, 2)
            IN BinarySort(Reverse(SubSeq(items, 1, n)) \o SubSeq(items, n + 1, Len(items)), n)
       ELSE BinarySort(items, AscRun(items, 2))

\* ------------------------------------------------------------ state
VARIABLES
  df0,               \* the song table read by preprocess (rows in file order)
  lyrics_dict,       \* the lyrics map read by preprocess: uri -> Counter
  min_df,            \* preprocess's min_df argument
  max_df_ratio,      \* preprocess's max_df_ratio argument
  vars_dict,         \* the bundle (None before preprocess has run)
  pc,                \* where the program is
  query, is_uri, lyrics_weight, n_results,     \* main's arguments
  query_uri, query_artist, query_name, query_af, query_lyrics_cnt,
  lyric_sim_scores, af_sim_scores, averaged_scores,
  ranked, output, sorted_lyric_sims,  \* main's locals
  ret,               \* how main ended: "running", "None", "tuple", "KeyError"
  stdout,            \* the messages printed by main
  calls              \* the provider and scorer calls made by main, in order

batch == <<df0, lyrics_dict, min_df, max_df_ratio>>
args == <<query, is_uri, lyrics_weight, n_results>>
names == <<query_uri, query_artist, query_name>>
scores == <<lyric_sim_scores, af_sim_scores, averaged_scores>>
results == <<ranked, output, sorted_lyric_sims>>
vars == <<batch, vars_dict, pc, args, names, query_af, query_lyrics_cnt,
          scores, results, ret, stdout, calls>>

Row(u, choice) ==
  [track_id |-> u, artist_name |-> DatasetArtist(u), track_name |-> DatasetTitle(u),
   energy |-> choice.energy]

MinDfs == { 1, 2 }
MaxDfRatios == { [num |-> 1, den |-> 1], [num |-> 1, den |-> 2] }

\* Any dataset of the model: every song holds one of SongChoices; the last
\* song may be missing from the lyrics map and the first from the song table.
InitData ==
  \E pick \in [Songs -> SongChoices],
     lyr \in { Songs, Songs \ {NSongs} },
     tab \in { Songs, Songs \ {1} } :
    /\ lyrics_dict = [u \in lyr |-> pick[u].lyrics]
    /\ df0 = [i \in DOMAIN SetToSeq(tab) |-> Row(SetToSeq(tab)[i], pick[SetToSeq(tab)[i]])]

InitMain ==
  /\ vars_dict = None
  /\ pc = "batch"
  /\ query = None /\ is_uri = FALSE /\ lyrics_weight = FZero /\ n_results = 0
  /\ query_uri = NoUri /\ query_artist = None /\ query_name = None
  /\ query_af = None /\ query_lyrics_cnt = None
  /\ lyric_sim_scores = None /\ af_sim_scores = None /\ averaged_scores = None
  /\ ranked = None /\ output = None /\ sorted_lyric_sims = None
  /\ ret = "running" /\ stdout = << >> /\ calls = << >>

\* preprocess called as the source's own call does, without thresholds
Init ==
  /\ InitData
  /\ min_df = DefaultMinDf /\ max_df_ratio = DefaultMaxDfRatio
  /\ InitMain

\* preprocess called with any thresholds
InitThresholds ==
  /\ InitData
  /\ min_df \in MinDfs /\ max_df_ratio \in MaxDfRatios
  /\ InitMain

\* ------------------------------------------------------------ actions
\* sim_preprocess.preprocess
Preprocess ==
  /\ pc = "batch"
  /\ vars_dict' = preprocess(df0, lyrics_dict, TRUE, min_df, max_df_ratio)
  /\ pc' = "idle"
  /\ UNCHANGED <<batch, args, names, query_af, query_lyrics_cnt, scores, results,
                 ret, stdout, calls>>

\* a caller calls main(query, lyrics_weight, n_results, vars_dict, is_uri)
Call ==
  /\ pc = "idle"
  /\ \E u \in BOOLEAN :
       /\ is_uri' = u
       /\ query' \in IF u THEN SpotifyUris ELSE QueryStrings
  /\ lyrics_weight' \in Weights
  /\ n_results' \in 0..MaxResults
  /\ pc' = "resolve"
  /\ UNCHANGED <<batch, vars_dict, names, query_af, query_lyrics_cnt, scores, results,
                 ret, stdout, calls>>

ConsidersLyricsAlways(weight) == TRUE
\* main, lines 243 and 264: `lyrics_weight == 0` is false
ConsidersLyrics(weight) == weight # FZero

RaiseInsteadOfReturn(msg) ==
  /\ stdout' = stdout
  /\ ret' = "KeyError"
  /\ pc' = "done"
\* `print(msg); return` of main
ReturnNone(msg) ==
  /\ stdout' = Append(stdout, msg)
  /\ ret' = "None"
  /\ pc' = "done"

\* main, lines 224-230: the query is "artist | name"
ResolveByName ==
  /\ pc = "resolve" /\ ~is_uri
  /\ LET parts == [i \in DOMAIN Split(query, "|") |-> Lower(Strip(Split(query, "|")[i]))]
         artist == parts[1]
         name == StripName(parts[2])
     IN /\ query_artist' = artist
        /\ query_name' = name
        /\ \E search_results \in SearchResults :
             /\ query_uri' = get_song_uri(artist, name, search_results)
             /\ calls' = Append(calls, "sp.search")
             /\ IF query_uri' = NoUri
                THEN ReturnNone("Song not found on Spotify")
                ELSE pc' = "features" /\ UNCHANGED <<ret, stdout>>
  /\ UNCHANGED <<batch, vars_dict, args, query_af, query_lyrics_cnt, scores, results>>

\* main, lines 231-232: the query is a uri
ResolveByUri ==
  /\ pc = "resolve" /\ is_uri
  /\ query_uri' = query
  /\ pc' = "features"
  /\ UNCHANGED <<batch, vars_dict, args, query_artist, query_name, query_af,
                 query_lyrics_cnt, scores, results, ret, stdout, calls>>

\* main, lines 234-241
FetchAudioFeatures ==
  /\ pc = "features"
  /\ \E has_data \in BOOLEAN :
       LET af == get_audio_features(query_uri, has_data)
       IN /\ calls' = calls \o (IF has_data THEN <<"sp.audio_features", "sp.track">>
                                            ELSE <<"sp.audio_features">>)
          /\ query_af' = af
          /\ IF af = None
             THEN /\ ReturnNone("Song audio features not found on Spotify")
                  /\ UNCHANGED <<query_artist, query_name>>
             ELSE /\ IF is_uri
                     THEN /\ query_artist' = Lower(Strip(Split(af.artist_name, ",")[1]))
                          /\ query_name' = Lower(StripName(af.track_name))
                     ELSE UNCHANGED <<query_artist, query_name>>
                  /\ pc' = IF ConsidersLyrics(lyrics_weight) THEN "lyrics" ELSE "score"
                  /\ UNCHANGED <<ret, stdout>>
  /\ UNCHANGED <<batch, vars_dict, args, query_uri, query_lyrics_cnt, scores, results>>

FetchLyricsThenFallBack ==
  /\ pc = "lyrics"
  /\ \E answer \in GeniusAnswers(query_artist) :
       LET cnt == retrieve_lyrics(query_artist, query_name, answer)
       IN /\ calls' = calls \o <<"genius.search_artist">>
                        \o (IF answer.artist_obj THEN <<"artist.song">> ELSE << >>)
                        \o (IF cnt # None THEN <<"genius.song_annotations">> ELSE << >>)
          /\ query_lyrics_cnt' = cnt
          /\ pc' = "score"
          /\ IF cnt = None
             THEN stdout' = Append(stdout, "Song lyrics not found on Genius.")
             ELSE UNCHANGED stdout
  /\ UNCHANGED <<batch, vars_dict, args, names, query_af, scores, results, ret>>
\* main, lines 247-250 (lyrics_weight is not 0)
FetchLyrics ==
  /\ pc = "lyrics"
  /\ \E answer \in GeniusAnswers(query_artist) :
       LET cnt == retrieve_lyrics(query_artist, query_name, answer)
       IN /\ calls' = calls \o <<"genius.search_artist">>
                        \o (IF answer.artist_obj THEN <<"artist.song">> ELSE << >>)
                        \o (IF cnt # None THEN <<"genius.song_annotations">> ELSE << >>)
          /\ query_lyrics_cnt' = cnt
          /\ IF cnt = None
             THEN ReturnNone("Song lyrics not found on Genius.")
             ELSE pc' = "score" /\ UNCHANGED <<ret, stdout>>
  /\ UNCHANGED <<batch, vars_dict, args, names, query_af, scores, results>>

\* np.zeros(n)
Zeros(n) == [i \in 1..n |-> FZero]

\* main, lines 243-245: audio features alone
ScoreAudio ==
  /\ pc = "score" /\ ~ConsidersLyrics(lyrics_weight)
  /\ sorted_lyric_sims' = Zeros(n_results)
  /\ af_sim_scores' = af_sim(query_af, vars_dict.af_matrix, vars_dict.af_song_norms,
                              vars_dict.ix_to_uri, vars_dict.scaler, None)
  /\ calls' = Append(calls, "af_sim")
  /\ pc' = "fuse"
  /\ UNCHANGED <<batch, vars_dict, args, names, query_af, query_lyrics_cnt,
                 lyric_sim_scores, averaged_scores, ranked, output, ret, stdout>>

\* main, lines 251-252: lyrics, then audio features
ScoreBoth ==
  /\ pc = "score" /\ ConsidersLyrics(lyrics_weight)
  /\ lyric_sim_scores' = lyrics_sim(query_lyrics_cnt, vars_dict.inv_idx, vars_dict.idf_dict,
                                     vars_dict.song_norms_dict)
  /\ af_sim_scores' = af_sim(query_af, vars_dict.af_matrix, vars_dict.af_song_norms,
                              vars_dict.ix_to_uri, vars_dict.scaler, None)
  /\ calls' = calls \o <<"lyrics_sim", "af_sim">>
  /\ pc' = "fuse"
  /\ UNCHANGED <<batch, vars_dict, args, names, query_af, query_lyrics_cnt,
                 averaged_scores, results, ret, stdout>>

\* main, line 268: the weighted average over the keys of lyric_sim_scores
Average(af_scores, lyric_scores, weight) ==
  LET af_weight == FAdd(FOne, FNeg(weight))
  IN [i \in DOMAIN lyric_scores |->
        <<lyric_scores[i][1],
          FAdd(FMul(Value(af_scores, lyric_scores[i][1]), af_weight),
               FMul(lyric_scores[i][2], weight))>>]

\* main, lines 264-268; af_sim_scores[k] raises KeyError for a key of
\* lyric_sim_scores that af_sim_scores lacks
Fuse ==
  /\ pc = "fuse"
  /\ IF ~ConsidersLyrics(lyrics_weight)
     THEN /\ averaged_scores' = af_sim_scores
          /\ pc' = "rank"
          /\ UNCHANGED ret
     ELSE IF Keys(lyric_sim_scores) \subseteq Keys(af_sim_scores)
     THEN /\ averaged_scores' = Average(af_sim_scores, lyric_sim_scores, lyrics_weight)
          /\ pc' = "rank"
          /\ UNCHANGED ret
     ELSE /\ ret' = "KeyError"
          /\ pc' = "done"
          /\ UNCHANGED averaged_scores
  /\ UNCHANGED <<batch, vars_dict, args, names, query_af, query_lyrics_cnt,
                 lyric_sim_scores, af_sim_scores, results, stdout, calls>>

\* main, line 272
Rank ==
  /\ pc = "rank"
  /\ ranked' = Sorted(averaged_scores)
  /\ pc' = "scan"
  /\ UNCHANGED <<batch, vars_dict, args, names, query_af, query_lyrics_cnt, scores,
                 output, sorted_lyric_sims, ret, stdout, calls>>

KeptWithoutIdTest(uri, song_data, q_uri, q_artist, q_name) ==
  /\ ~Match(song_data.artist_name, q_artist)
  /\ ~Match(song_data.track_name, q_name)
\* main, line 278: the candidate is appended to the output
Kept(uri, song_data, q_uri, q_artist, q_name) ==
  /\ uri # q_uri
  /\ ~Match(song_data.artist_name, q_artist)
  /\ ~Match(song_data.track_name, q_name)

RECURSIVE ScanLoop(_, _, _, _, _, _, _, _)
\* main, lines 275-281: the while loop from index i (0-based) on
ScanLoop(rk, n, uri_to_song, q_uri, q_artist, q_name, i, out) ==
  IF ~(i < Len(rk) /\ i < n) THEN out
  ELSE LET uri == rk[i + 1][1]
           score == rk[i + 1][2]
           song_data == uri_to_song[uri]
       IN ScanLoop(rk, n, uri_to_song, q_uri, q_artist, q_name, i + 1,
                   IF Kept(uri, song_data, q_uri, q_artist, q_name)
                   THEN Append(out, [score |-> score, song_data |-> song_data])
                   ELSE out)

\* the ranked entries the loop reads
Scanned(rk, n) == SubSeq(rk, 1, IF n < Len(rk) THEN n ELSE Len(rk))

\* main, lines 273-281; vars_dict['uri_to_song'][uri] raises KeyError for a
\* uri the song table lacks
Scan ==
  /\ pc = "scan"
  /\ IF \A i \in DOMAIN Scanned(ranked, n_results) :
          ranked[i][1] \in DOMAIN vars_dict.uri_to_song
     THEN /\ output' = ScanLoop(ranked, n_results, vars_dict.uri_to_song,
                                query_uri, query_artist, query_name, 0, << >>)
          /\ pc' = "return"
          /\ UNCHANGED ret
     ELSE /\ ret' = "KeyError"
          /\ pc' = "done"
          /\ UNCHANGED output
  /\ UNCHANGED <<batch, vars_dict, args, names, query_af, query_lyrics_cnt, scores,
                 ranked, sorted_lyric_sims, stdout, calls>>

\* main, lines 284-289
Return ==
  /\ pc = "return"
  /\ sorted_lyric_sims' =
       IF ConsidersLyrics(lyrics_weight)
       THEN [i \in DOMAIN output |-> Value(lyric_sim_scores, output[i].song_data.track_id)]
       ELSE sorted_lyric_sims
  /\ stdout' = Append(stdout, "results retrieved")
  /\ ret' = "tuple"
  /\ pc' = "done"
  /\ UNCHANGED <<batch, vars_dict, args, names, query_af, query_lyrics_cnt, scores,
                 ranked, output, calls>>

Next ==
  \/ Preprocess
  \/ Call
  \/ ResolveByName
  \/ ResolveByUri
  \/ FetchAudioFeatures
  \/ FetchLyrics
  \/ ScoreAudio
  \/ ScoreBoth
  \/ Fuse
  \/ Rank
  \/ Scan
  \/ Return

Spec == Init /\ [][Next]_vars

\* the batch step alone, called with any thresholds
SpecThresholds == InitThresholds /\ [][Preprocess]_vars

\* ------------------------------------------------------------ properties
Min(a, b) == IF a < b THEN a ELSE b
OutputIds == { output[i].song_data.track_id : i \in DOMAIN output }
ScannedRows == DOMAIN Scanned(ranked, n_results)
SongData(uri) == vars_dict.uri_to_song[uri]
FuzzyMatchesQuery(uri) ==
  /\ Match(SongData(uri).artist_name, query_artist)
  /\ Match(SongData(uri).track_name, query_name)
Survivors ==
  { i \in DOMAIN ranked :
      Kept(ranked[i][1], SongData(ranked[i][1]), query_uri, query_artist, query_name) }

\* C1: the result list has exactly min(n_results, number of ranked
\* candidates that pass the exclusion filter) entries: a filtered-out
\* candidate among the first n_results ranked entries takes no result slot.
C1_OutputLength ==
  ret = "tuple" => Len(output) = Min(n_results, Cardinality(Survivors))

\* C2: no entry of the result list has the query song's own id.
C2_QueryNotInResults ==
  \A i \in DOMAIN output : output[i].song_data.track_id # query_uri

\* the query song was scanned, its row of the dataset matches the query in
\* neither artist nor title, and results were returned
C2_Witness ==
  /\ ret = "tuple"
  /\ output # << >>
  /\ \E i \in ScannedRows :
       /\ ranked[i][1] = query_uri
       /\ ~Match(SongData(query_uri).artist_name, query_artist)
       /\ ~Match(SongData(query_uri).track_name, query_name)

\* C3: a scanned candidate is dropped if and only if its id is the query's
\* id or its artist and its title both fuzzy-match the query's.
C3_DroppedIff ==
  ret = "tuple" =>
    \A i \in ScannedRows :
      (ranked[i][1] \notin OutputIds)
        <=> (ranked[i][1] = query_uri \/ FuzzyMatchesQuery(ranked[i][1]))

\* the norms of the query that the scorers compute
QueryLyricsNorm ==
  FSqrt(FSumFn([t \in Keys(query_lyrics_cnt) \cap DOMAIN vars_dict.idf_dict |->
                  FSquare(FScale(Value(query_lyrics_cnt, t), vars_dict.idf_dict[t]))]))
QueryAfNorm ==
  Norm(Transform(vars_dict.scaler,
                 [c \in DOMAIN AF_COLS |-> FInt(query_af[AF_COLS[c]])]))
RowOf(uri) == CHOOSE i \in DOMAIN vars_dict.ix_to_uri : vars_dict.ix_to_uri[i] = uri

\* C4: no score of lyrics_sim or af_sim is nan, and a score computed with a
\* zero norm (of the query or of the song) is exactly 0.
C4_ZeroNormGivesZero ==
  /\ \A i \in DOMAIN lyric_sim_scores :
       /\ IsNum(lyric_sim_scores[i][2])
       /\ (QueryLyricsNorm = FZero \/ vars_dict.song_norms_dict[lyric_sim_scores[i][1]] = FZero)
            => lyric_sim_scores[i][2] = FZero
  /\ \A i \in DOMAIN af_sim_scores :
       /\ IsNum(af_sim_scores[i][2])
       /\ (QueryAfNorm = FZero \/ vars_dict.af_song_norms[RowOf(af_sim_scores[i][1])] = FZero)
            => af_sim_scores[i][2] = FZero

\* C5: with lyrics_weight w in (0,1] the ranked ids are the keys of the
\* lyrical score map, each with score audio*(1-w) + lyric*w, which at w = 1
\* is its lyrical score; at w = 0 the ranked scores are the audio scores.
C5_Fusion ==
  pc \in {"rank", "scan", "return"} \/ ret = "tuple" =>
    IF lyrics_weight = FZero
    THEN averaged_scores = af_sim_scores
    ELSE /\ Keys(averaged_scores) = Keys(lyric_sim_scores)
         /\ \A k \in Keys(averaged_scores) :
              /\ Value(averaged_scores, k) =
                   FAdd(FMul(Value(af_sim_scores, k), FAdd(FOne, FNeg(lyrics_weight))),
                        FMul(Value(lyric_sim_scores, k), lyrics_weight))
              /\ lyrics_weight = FOne =>
                   Value(averaged_scores, k) = Value(lyric_sim_scores, k)

GeniusCalls == {"genius.search_artist", "artist.song", "genius.song_annotations"}
Corpus == DOMAIN vars_dict.uri_to_song

\* C6: with lyrics_weight = 0 main calls neither the lyrics provider nor
\* lyrics_sim and cannot end with lyrics not found; the ranked candidates
\* are all the songs of the corpus, each with its audio score.
C6_AudioOnly ==
  pc \notin {"batch", "idle"} /\ lyrics_weight = FZero =>
    /\ \A i \in DOMAIN calls : calls[i] \notin GeniusCalls \cup {"lyrics_sim"}
    /\ "Song lyrics not found on Genius." \notin Range(stdout)
    /\ query_lyrics_cnt = None /\ lyric_sim_scores = None
    /\ pc \in {"scan", "return"} \/ ret = "tuple" =>
         /\ Keys(ranked) = Corpus
         /\ Len(ranked) = Cardinality(Corpus)
         /\ \A i \in DOMAIN ranked : ranked[i][2] = Value(af_sim_scores, ranked[i][1])

\* a request with lyrics_weight 0 that ranked a corpus of several songs
C6_Witness ==
  /\ ret = "tuple"
  /\ lyrics_weight = FZero
  /\ Len(ranked) >= 2
  /\ calls = <<"sp.audio_features", "sp.track", "af_sim">>

SongNotFound == pc = "done" /\ ~is_uri /\ query_uri = NoUri
FeaturesMissing == pc = "done" /\ query_uri # NoUri /\ query_af = None
LyricsNotFound ==
  pc = "done" /\ query_af # None /\ lyrics_weight # FZero /\ query_lyrics_cnt = None

CallOrder ==
  <<"sp.search", "sp.audio_features", "sp.track", "genius.search_artist", "artist.song",
    "genius.song_annotations", "lyrics_sim", "af_sim">>
Position(c) == CHOOSE i \in DOMAIN CallOrder : CallOrder[i] = c

\* C8: the stages run in the order resolution, audio features, lyrics (only
\* with lyrics_weight > 0), scoring, ranking, each call made at most once;
\* a failed stage ends the request: nothing is called after it, no scorer
\* runs and nothing is ranked, in particular not by audio alone when the
\* lyrics are missing.
C8_FailFast ==
  /\ \A i, j \in DOMAIN calls : i < j => Position(calls[i]) < Position(calls[j])
  /\ lyrics_weight = FZero => \A i \in DOMAIN calls : calls[i] \notin GeniusCalls
  /\ ranked # None => "af_sim" \in Range(calls)
  /\ SongNotFound => calls = <<"sp.search">>
  /\ FeaturesMissing => calls \in { <<"sp.audio_features">>, <<"sp.search", "sp.audio_features">> }
  /\ LyricsNotFound =>
       /\ Range(calls) \cap {"lyrics_sim", "af_sim"} = {}
       /\ calls[Len(calls)] \in GeniusCalls
  /\ ret = "None" =>
       /\ Range(calls) \cap {"lyrics_sim", "af_sim"} = {}
       /\ af_sim_scores = None /\ lyric_sim_scores = None /\ averaged_scores = None
       /\ ranked = None /\ output = None /\ sorted_lyric_sims = None
       /\ ~ENABLED Next

\* a request with lyrics_weight > 0 for which Spotify had the song and its
\* features and Genius had no lyrics
C8_Witness ==
  /\ LyricsNotFound
  /\ ret = "None"
  /\ calls = <<"sp.search", "sp.audio_features", "sp.track", "genius.search_artist",
               "artist.song">>

\* C9: the results are in non-increasing order of score (no result comes
\* before a result of greater score), and adjacent results of equal score
\* are in ascending order of song id.
C9_Ordered ==
  ret = "tuple" =>
    /\ \A i, j \in DOMAIN output : i < j => ~FLt(output[i].score, output[j].score)
    /\ \A i \in 1..(Len(output) - 1) :
         FEq(output[i].score, output[i + 1].score) =>
           output[i].song_data.track_id < output[i + 1].song_data.track_id

\* C10: the idf table of the bundle holds a token if and only if its
\* document frequency df has df >= min_df and df/n_docs <= max_df_ratio,
\* for the thresholds preprocess was called with.
C10_IdfThresholds ==
  vars_dict # None =>
    \A w \in DOMAIN vars_dict.inv_idx :
      w \in DOMAIN vars_dict.idf_dict
        <=> /\ Len(vars_dict.inv_idx[w]) >= min_df
            /\ RatioLe(Len(vars_dict.inv_idx[w]), Cardinality(DOMAIN lyrics_dict), max_df_ratio)

\* C11: every song id of the lyrical score map is a key of the audio score
\* map and of uri_to_song, so neither the fusion nor the scan of main ends
\* with a KeyError, also when the lyrics map has an id the song table lacks.
C11_NoMissingKey ==
  /\ ret # "KeyError"
  /\ vars_dict # None /\ af_sim_scores # None =>
       Keys(lyric_sim_scores) \subseteq Keys(af_sim_scores) \cap DOMAIN vars_dict.uri_to_song

====
